---- MODULE Spec2Model ----
(***************************************************************************)
(* Transcendia: the two-tier translation cache (CacheService), the         *)
(* translate and approve route handlers that use it, and the composite     *)
(* cache key.                                                              *)
(*                                                                         *)
(* Strings are sequences of one-character strings, so that concatenation,  *)
(* endsWith and length are computed as the code computes them.             *)
(* A JavaScript null is the value NULL; a Map is a function whose DOMAIN   *)
(* is the set of keys present.                                             *)
(***************************************************************************)
EXTENDS Integers, Sequences, FiniteSets, TLC

VARIABLES
    redis,        \* this.redis !== null (the handle held by CacheService)
    link,         \* the ioredis client's connection: "connecting", "connected", "error"
    redisStore,   \* the shared tier's content: cacheKey -> [value, expiresAt]
    memoryCache,  \* this.memoryCache: cacheKey -> [value, expiresAt, t]
    now,          \* Date.now(), in milliseconds
    db,           \* approved translations of the durable store: <<key, lang>> -> value
    pr,           \* per request: the operation it runs and where it is suspended
    nops,         \* requests started so far
    last,         \* history: the set that completed last, with nothing after it
    gone,         \* history: per cache key, the delete completed since its last write
                  \* (tiers: the tiers it reached; had: an entry was there) and
                  \* val: the value of its last completed set, if nothing cleared it
    flushed,      \* history: the same for the clearAll completed since the last write
    failRun,      \* history: set then get completed while every command failed
    fin,          \* inputs of the pure functions (the composite key)
    fout,         \* their outputs
    sdk           \* the SDK client: its LRU cache and its tBatch call in progress

vars == <<redis, link, redisStore, memoryCache, now, db, pr, nops, last, gone,
          flushed, failRun, fin, fout, sdk>>

cacheVars == <<redis, link, redisStore, memoryCache, now, db, pr, nops, last, gone,
               flushed, failRun>>

-----------------------------------------------------------------------------
(* Program constants and bounds *)

CACHE_TTL == 3600

MaxOps == 3
MaxRequests == 4
MaxBatch == 2
MaxLookups == 2
MaxRawLen == 4
MaxTokenLen == 2
MaxCandidates == 3
MaxGroupLen == 3
MaxExtractLen == 3
MaxTicks == 2
MaxSdkCalls == 2
MaxSdkKeys == 2
MaxKeyLen == 2
MaxLangLen == 3
MinKeyLen == 1
MinLangLen == 2

TickMs == (CACHE_TTL * 1000) \div 2

NULL == "<null>"
Values == {"", "v1", "v2"}

Keys == {<<"a">>}
LangTr == <<"t", "r">>
LangXTr == <<"x", ":", "t", "r">>
Langs == {LangTr, LangXTr}

AllProcs == {"r1"}

-----------------------------------------------------------------------------
(* Strings *)

endsWith(s, suffix) ==
    /\ Len(suffix) <= Len(s)
    /\ SubSeq(s, Len(s) - Len(suffix) + 1, Len(s)) = suffix

\* JavaScript truthiness of a string-or-null: null and "" are falsy.
Truthy(v) == v # NULL /\ v # ""

getCacheKey(key, lang) == key \o <<":">> \o lang

CacheKeys == {getCacheKey(k, l) : k \in Keys, l \in Langs}

CK(rec) == getCacheKey(rec.key, rec.lang)

-----------------------------------------------------------------------------
(* Maps *)

MapSet(m, k, e) == [c \in DOMAIN m \cup {k} |-> IF c = k THEN e ELSE m[c]]

MapDelete(m, ks) == [c \in DOMAIN m \ ks |-> m[c]]

EmptyMap == [c \in {} |-> NULL]

-----------------------------------------------------------------------------
(* The two tiers *)

\* Redis GET: the value of an unexpired key, else nil.
redisGet(ck) ==
    IF ck \in DOMAIN redisStore /\ redisStore[ck].expiresAt > now
    THEN redisStore[ck].value
    ELSE NULL

\* Redis SETEX key CACHE_TTL value.
redisSetex(ck, value) ==
    MapSet(redisStore, ck, [value |-> value, expiresAt |-> now + CACHE_TTL * 1000])

\* Redis KEYS *:<lang> (the languages of the model hold no glob character).
redisKeys(lang) ==
    {c \in DOMAIN redisStore :
        redisStore[c].expiresAt > now /\ endsWith(c, <<":">> \o lang)}

\* A variant of memoryLive that honours an entry at the instant it expires.
memoryLive_inclusive(ck) ==
    ck \in DOMAIN memoryCache /\ memoryCache[ck].expiresAt >= now

memoryLive(ck) ==
    ck \in DOMAIN memoryCache /\ memoryCache[ck].expiresAt > now

\* get, lines 55-61: the fallback to the memory cache.
memoryGet(ck) == IF memoryLive(ck) THEN memoryCache[ck].value ELSE NULL

\* set, lines 80-84. The field t is history: the time of the write.
memorySet(ck, value) ==
    MapSet(memoryCache, ck,
           [value |-> value, expiresAt |-> now + CACHE_TTL * 1000, t |-> now])

\* A variant of delete that leaves the memory cache alone.
memoryDelete_skipped(ck) == memoryCache

\* delete, line 101.
memoryDelete(ck) == MapDelete(memoryCache, {ck})

\* A variant of clearAll that leaves the memory cache alone.
memoryClear_skipped == memoryCache

\* clearAll, line 139.
memoryClear == EmptyMap

\* clearLanguage, lines 120-124.
\* A variant of clearLanguage whose memory loop removes nothing.
memoryClearLanguage_skipped(lang) == memoryCache

memoryClearLanguage(lang) ==
    MapDelete(memoryCache,
              {c \in DOMAIN memoryCache : endsWith(c, <<":">> \o lang)})

-----------------------------------------------------------------------------
(* Requests *)

NoStats == [redis |-> FALSE, memorySize |-> 0]

\* A request slot. shared: how the shared-tier part of the operation went
\* ("none": not tried, "ok", "err": the command failed, "dropped": the handle was
\* null when dereferenced); local: whether the local-tier step ran; src: the tier
\* a get was served from; appr: the approved translation when a translate began.
\* Of a lookup (GET /translate, or one key of POST /translate/batch): steps: the
\* calls it made so far, in order; got: what cacheService.get returned; found:
\* the approved translation the store returned; dbout: how the store's query
\* went ("none": not made, "ok", "err"); cached: the reply's flag.
\* items: the lookups of a batch request, one per key. cleared: the entries a
\* clearLanguage removed from the memory cache. quiet: no other request was in
\* progress when this one began.
Idle ==
    [op |-> "none", pc |-> "idle", key |-> <<>>, lang |-> <<>>, val |-> NULL,
     res |-> NULL, st |-> "none", src |-> "none", shared |-> "none",
     local |-> FALSE, keys |-> {}, stats |-> NoStats, appr |-> NULL,
     cached |-> FALSE, steps |-> <<>>, got |-> NULL, found |-> NULL,
     dbout |-> "none", items |-> <<>>, cleared |-> {}, quiet |-> TRUE]

Begin(op, key, lang, val) ==
    [Idle EXCEPT !.op = op, !.pc = "run", !.key = key, !.lang = lang, !.val = val]

\* A caller of the cache starts an operation; an HTTP client starts a request.
CanStart(p) == pr[p].pc \in {"idle", "done"} /\ nops < MaxOps

CanRequest(p) == pr[p].pc \in {"idle", "done"} /\ nops < MaxRequests

CanLookup(p) == pr[p].pc \in {"idle", "done"} /\ nops < MaxLookups

NoLast == [ck |-> <<>>, val |-> NULL]

NotGone == [tiers |-> "no", had |-> FALSE, val |-> NULL]

\* The history of an invalidation: the tiers it reached and whether any of the
\* cache keys cks had an entry.
Invalidated(tiers, cks) ==
    [tiers |-> tiers,
     had |-> \E c \in cks : c \in DOMAIN memoryCache \/ c \in DOMAIN redisStore,
     val |-> NULL]

\* The history of clearLanguage(lang): the pairs of that language have no
\* completed set any more.
LanguageCleared(lang) ==
    [c \in CacheKeys |->
        IF \E k \in Keys : c = getCacheKey(k, lang)
        THEN [gone[c] EXCEPT !.val = NULL]
        ELSE gone[c]]

\* A command can only succeed while the connection is up; it can fail any time.
Outcomes == IF link = "connected" THEN {"ok", "err"} ELSE {"err"}

\* The history of "set, then get, and every command failed so far".
NextFailRun(cmdOk, op) ==
    IF cmdOk \/ failRun = "broken" THEN "broken"
    ELSE IF failRun = "init" /\ op = "set" THEN "set"
    ELSE IF failRun = "set" /\ op = "get" THEN "setget"
    ELSE failRun

-----------------------------------------------------------------------------
(* GET /translate, the part after cacheService.get: languages.ts 142-150 *)

\* A variant of the handler that does not flag a value served from the cache.
TranslateAfterGet_unflagged(rec, cached) ==
    IF Truthy(cached)
    THEN [rec EXCEPT !.pc = "done", !.st = "200", !.res = cached, !.got = cached]
    ELSE [rec EXCEPT !.pc = "await_db", !.got = cached,
                     !.steps = Append(rec.steps, "db")]

\* On a miss the store is queried (line 153).
TranslateAfterGet(rec, cached) ==
    IF Truthy(cached)
    THEN [rec EXCEPT !.pc = "done", !.st = "200", !.res = cached, !.cached = TRUE,
                     !.got = cached]
    ELSE [rec EXCEPT !.pc = "await_db", !.got = cached,
                     !.steps = Append(rec.steps, "db")]

\* GET /translate, the part after cacheService.set: languages.ts 183-189
TranslateAfterSet(rec) ==
    [rec EXCEPT !.pc = "done", !.st = "200", !.res = rec.val, !.cached = FALSE]

-----------------------------------------------------------------------------
(* POST /translate/batch, one key of keys.map: languages.ts 211-234 *)

\* lines 212-215: a cached value is the key's result; on a miss the key is parsed
\* and the store queried.
BatchAfterGet(rec, cached) ==
    IF Truthy(cached)
    THEN [rec EXCEPT !.pc = "done", !.st = "hit", !.res = cached, !.cached = TRUE,
                     !.got = cached]
    ELSE [rec EXCEPT !.pc = "await_db", !.got = cached,
                     !.steps = Append(rec.steps, "db")]

\* lines 232-233
BatchAfterSet(rec) ==
    [rec EXCEPT !.pc = "done", !.st = "found", !.res = rec.val, !.cached = FALSE]

-----------------------------------------------------------------------------
(* CacheService.get *)

\* get returns value to its caller: the request itself, or the translate handler.
getReturn(rec, value, src) ==
    LET r == [rec EXCEPT !.src = src, !.local = (src # "redis")]
    IN  IF rec.op = "get"
        THEN [r EXCEPT !.pc = "done", !.st = "ok", !.res = value]
        ELSE IF rec.op = "item" THEN BatchAfterGet(r, value)
        ELSE TranslateAfterGet(r, value)

\* lines 55-61
getFallback(rec) ==
    getReturn(rec, memoryGet(CK(rec)),
              IF memoryLive(CK(rec)) THEN "local" ELSE "none")

\* lines 46-53, after the await: a truthy value is returned, anything else
\* (nil, "", an error) falls through to the memory cache.
getAfterRedis(rec, out) ==
    LET value == IF out = "ok" THEN redisGet(CK(rec)) ELSE NULL
        r == [rec EXCEPT !.shared = out]
    IN  IF Truthy(value) THEN getReturn(r, value, "redis") ELSE getFallback(r)

\* lines 42-48: up to the await, or all of get when the handle is null.
GetEnter(p, rec) ==
    /\ pr' = [pr EXCEPT ![p] =
                IF redis THEN [rec EXCEPT !.pc = "await_get"] ELSE getFallback(rec)]
    /\ last' = IF redis THEN last ELSE NoLast
    /\ failRun' = IF redis THEN failRun ELSE NextFailRun(FALSE, "get")
    /\ UNCHANGED <<redisStore, memoryCache, gone, flushed>>

GetCall(p) ==
    /\ CanStart(p)
    /\ \E k \in Keys, l \in Langs :
        GetEnter(p, [Begin("get", k, l, NULL) EXCEPT
                        !.quiet = \A q \in DOMAIN pr \ {p} :
                                      pr[q].pc \in {"idle", "done"}])
    /\ nops' = nops + 1
    /\ UNCHANGED <<redis, link, now, db, fin, fout, sdk>>

GetReply(p) ==
    /\ pr[p].pc = "await_get"
    /\ \E out \in Outcomes :
        /\ pr' = [pr EXCEPT ![p] = getAfterRedis(pr[p], out)]
        /\ failRun' = NextFailRun(out = "ok", "get")
    /\ last' = NoLast
    /\ UNCHANGED <<redis, link, redisStore, memoryCache, now, db, nops, gone,
                   flushed, fin, fout, sdk>>

-----------------------------------------------------------------------------
(* CacheService.set *)

setReturn(rec, out, wroteLocal) ==
    LET r == [rec EXCEPT !.shared = out, !.local = wroteLocal]
    IN  IF rec.op = "set"
        THEN [r EXCEPT !.pc = "done", !.st = "ok"]
        ELSE IF rec.op = "item" THEN BatchAfterSet(r)
        ELSE TranslateAfterSet(r)

\* A variant of set that writes the memory cache on every path.
setWritesLocal_always(out) == TRUE

\* lines 71-84 after the await: return on success, else the memory cache.
setWritesLocal(out) == out # "ok"

\* The history kept at every write of ck.
SetHistory(rec, cmdOk) ==
    /\ last' = [ck |-> CK(rec), val |-> rec.val]
    /\ gone' = [gone EXCEPT ![CK(rec)] = [NotGone EXCEPT !.val = rec.val]]
    /\ flushed' = NotGone
    /\ failRun' = NextFailRun(cmdOk, "set")

\* lines 67-73: up to the await, or all of set when the handle is null.
SetEnter(p, rec) ==
    IF redis
    THEN /\ pr' = [pr EXCEPT ![p] = [rec EXCEPT !.pc = "await_setex"]]
         /\ UNCHANGED <<redisStore, memoryCache, last, gone, flushed, failRun>>
    ELSE /\ pr' = [pr EXCEPT ![p] = setReturn(rec, "none", TRUE)]
         /\ memoryCache' = memorySet(CK(rec), rec.val)
         /\ SetHistory(rec, FALSE)
         /\ UNCHANGED redisStore

SetCall(p) ==
    /\ CanStart(p)
    /\ \E k \in Keys, l \in Langs, v \in Values : SetEnter(p, Begin("set", k, l, v))
    /\ nops' = nops + 1
    /\ UNCHANGED <<redis, link, now, db, fin, fout, sdk>>

SetReply(p) ==
    /\ pr[p].pc = "await_setex"
    /\ \E out \in Outcomes :
        /\ pr' = [pr EXCEPT ![p] = setReturn(pr[p], out, setWritesLocal(out))]
        /\ redisStore' = IF out = "ok"
                         THEN redisSetex(CK(pr[p]), pr[p].val)
                         ELSE redisStore
        /\ memoryCache' = IF setWritesLocal(out)
                          THEN memorySet(CK(pr[p]), pr[p].val)
                          ELSE memoryCache
        /\ SetHistory(pr[p], out = "ok")
    /\ UNCHANGED <<redis, link, now, db, nops, fin, fout, sdk>>

-----------------------------------------------------------------------------
(* CacheService.delete *)

DeleteCall(p) ==
    /\ CanStart(p)
    /\ \E k \in Keys, l \in Langs :
        LET rec == Begin("delete", k, l, NULL)
        IN  IF redis
            THEN /\ pr' = [pr EXCEPT ![p] = [rec EXCEPT !.pc = "await_del"]]
                 /\ UNCHANGED <<memoryCache, last, gone>>
            ELSE /\ pr' = [pr EXCEPT ![p] =
                            [rec EXCEPT !.pc = "done", !.st = "ok", !.local = TRUE]]
                 /\ memoryCache' = memoryDelete(CK(rec))
                 /\ last' = NoLast
                 /\ gone' = [gone EXCEPT ![CK(rec)] = Invalidated("local", {CK(rec)})]
    /\ nops' = nops + 1
    /\ UNCHANGED <<redis, link, redisStore, now, db, flushed, failRun, fin, fout, sdk>>

\* lines 93-101 after the await: the memory cache entry is deleted in any case.
DeleteReply(p) ==
    /\ pr[p].pc = "await_del"
    /\ pr[p].op = "delete"
    /\ \E out \in Outcomes :
        /\ pr' = [pr EXCEPT ![p] = [pr[p] EXCEPT !.pc = "done", !.st = "ok",
                                                 !.shared = out, !.local = TRUE]]
        /\ redisStore' = IF out = "ok"
                         THEN MapDelete(redisStore, {CK(pr[p])})
                         ELSE redisStore
        /\ gone' = [gone EXCEPT ![CK(pr[p])] =
                        Invalidated(IF out = "ok" THEN "both" ELSE "local", {CK(pr[p])})]
        /\ failRun' = NextFailRun(out = "ok", "delete")
    /\ memoryCache' = memoryDelete(CK(pr[p]))
    /\ last' = NoLast
    /\ UNCHANGED <<redis, link, now, db, nops, flushed, fin, fout, sdk>>

-----------------------------------------------------------------------------
(* CacheService.clearLanguage *)

\* A variant of clearLanguage whose del call sits outside the try block: the
\* TypeError on a null handle reaches the caller.
clearLanguageAfterKeys_uncaught(rec, keys) ==
    IF keys = {} THEN [rec EXCEPT !.pc = "local", !.shared = "ok"]
    ELSE IF redis THEN [rec EXCEPT !.pc = "await_del", !.keys = keys]
    ELSE [rec EXCEPT !.pc = "threw", !.shared = "dropped"]

\* lines 110-116, after keys() resolved with `keys`: del is called on this.redis,
\* which the error handler may have set to null meanwhile; the TypeError is
\* thrown inside the try and caught at line 114.
clearLanguageAfterKeys(rec, keys) ==
    IF keys = {} THEN [rec EXCEPT !.pc = "local", !.shared = "ok"]
    ELSE IF redis THEN [rec EXCEPT !.pc = "await_del", !.keys = keys]
    ELSE [rec EXCEPT !.pc = "local", !.shared = "dropped"]

\* lines 119-125, given where the shared-tier part left the request.
ClearLanguageFinish(p, rec) ==
    IF rec.pc = "local"
    THEN /\ pr' = [pr EXCEPT ![p] =
                    [rec EXCEPT !.pc = "done", !.st = "ok", !.local = TRUE,
                                !.keys = {},
                                !.cleared = DOMAIN memoryCache
                                            \ DOMAIN memoryClearLanguage(rec.lang)]]
         /\ memoryCache' = memoryClearLanguage(rec.lang)
         /\ last' = NoLast
         /\ gone' = LanguageCleared(rec.lang)
    ELSE /\ pr' = [pr EXCEPT ![p] =
                    IF rec.pc = "threw"
                    THEN [rec EXCEPT !.pc = "done", !.st = "threw"]
                    ELSE rec]
         /\ UNCHANGED <<memoryCache, last, gone>>

ClearLanguageCall(p) ==
    /\ CanStart(p)
    /\ \E l \in Langs :
        LET rec == Begin("clearLanguage", <<>>, l, NULL)
        IN  ClearLanguageFinish(p, [rec EXCEPT !.pc = IF redis THEN "await_keys"
                                                      ELSE "local"])
    /\ nops' = nops + 1
    /\ UNCHANGED <<redis, link, redisStore, now, db, flushed, failRun, fin, fout, sdk>>

ClearLanguageKeysReply(p) ==
    /\ pr[p].pc = "await_keys"
    /\ \E out \in Outcomes :
        /\ ClearLanguageFinish(p,
              IF out = "ok"
              THEN clearLanguageAfterKeys(pr[p], redisKeys(pr[p].lang))
              ELSE [pr[p] EXCEPT !.pc = "local", !.shared = "err"])
        /\ failRun' = NextFailRun(out = "ok", "clearLanguage")
    /\ UNCHANGED <<redis, link, redisStore, now, db, nops, flushed, fin, fout, sdk>>

ClearLanguageDelReply(p) ==
    /\ pr[p].pc = "await_del"
    /\ pr[p].op = "clearLanguage"
    /\ \E out \in Outcomes :
        /\ ClearLanguageFinish(p, [pr[p] EXCEPT !.pc = "local", !.shared = out])
        /\ redisStore' = IF out = "ok"
                         THEN MapDelete(redisStore, pr[p].keys)
                         ELSE redisStore
        /\ failRun' = NextFailRun(out = "ok", "clearLanguage")
    /\ UNCHANGED <<redis, link, now, db, nops, flushed, fin, fout, sdk>>

-----------------------------------------------------------------------------
(* CacheService.clearAll *)

ClearAllCall(p) ==
    /\ CanStart(p)
    /\ LET rec == Begin("clearAll", <<>>, <<>>, NULL)
       IN  IF redis
           THEN /\ pr' = [pr EXCEPT ![p] = [rec EXCEPT !.pc = "await_flushdb"]]
                /\ UNCHANGED <<memoryCache, last, flushed>>
           ELSE /\ pr' = [pr EXCEPT ![p] =
                           [rec EXCEPT !.pc = "done", !.st = "ok", !.local = TRUE]]
                /\ memoryCache' = memoryClear
                /\ last' = NoLast
                /\ flushed' = Invalidated("local", CacheKeys)
    /\ nops' = nops + 1
    /\ UNCHANGED <<redis, link, redisStore, now, db, gone, failRun, fin, fout, sdk>>

\* lines 131-139 after the await: the memory cache is cleared in any case.
ClearAllReply(p) ==
    /\ pr[p].pc = "await_flushdb"
    /\ \E out \in Outcomes :
        /\ pr' = [pr EXCEPT ![p] = [pr[p] EXCEPT !.pc = "done", !.st = "ok",
                                                 !.shared = out, !.local = TRUE]]
        /\ redisStore' = IF out = "ok" THEN EmptyMap ELSE redisStore
        /\ flushed' = Invalidated(IF out = "ok" THEN "both" ELSE "local", CacheKeys)
        /\ failRun' = NextFailRun(out = "ok", "clearAll")
    /\ memoryCache' = memoryClear
    /\ last' = NoLast
    /\ UNCHANGED <<redis, link, now, db, nops, gone, fin, fout, sdk>>

-----------------------------------------------------------------------------
(* CacheService.getStats *)

\* A variant of getStats that counts the live entries only.
getStats_liveOnly ==
    [redis |-> redis,
     memorySize |-> Cardinality({c \in DOMAIN memoryCache : memoryLive(c)})]

getStats == [redis |-> redis, memorySize |-> Cardinality(DOMAIN memoryCache)]

GetStatsCall(p) ==
    /\ CanStart(p)
    /\ pr' = [pr EXCEPT ![p] = [Begin("getStats", <<>>, <<>>, NULL) EXCEPT
                                   !.pc = "done", !.st = "ok", !.stats = getStats]]
    /\ last' = NoLast
    /\ nops' = nops + 1
    /\ UNCHANGED <<redis, link, redisStore, memoryCache, now, db, gone, flushed,
                   failRun, fin, fout, sdk>>

-----------------------------------------------------------------------------
(* GET /translate: languages.ts 133-196 *)

Approved(key, lang) ==
    IF <<key, lang>> \in DOMAIN db THEN db[<<key, lang>>] ELSE NULL

\* lines 134-141: the cache is consulted first.
TranslateCall(p) ==
    /\ CanRequest(p)
    /\ \E k \in Keys, l \in Langs :
        GetEnter(p, [Begin("translate", k, l, NULL) EXCEPT
                        !.appr = Approved(k, l), !.steps = <<"get">>])
    /\ nops' = nops + 1
    /\ UNCHANGED <<redis, link, now, db, fin, fout, sdk>>

\* A variant of the handler that answers not-found when the query fails.
TranslateDbOutcome_swallowed(out, value) ==
    IF out = "ok" /\ value # NULL THEN "set" ELSE "404"

\* lines 153-195: what follows the query. A rejected query is caught at line 190
\* (500); no key or no approved translation is 404 (lines 170-176); otherwise
\* the translation is cached (line 181).
TranslateDbOutcome(out, value) ==
    IF out # "ok" THEN "500"
    ELSE IF value = NULL THEN "404"
    ELSE "set"

\* lines 153-181: the store answers; not found is 404, a failure is 500, and an
\* approved translation is written to the cache.
TranslateDbReply(p) ==
    /\ pr[p].pc = "await_db"
    /\ \E out \in {"ok", "err"} :
        LET value == Approved(pr[p].key, pr[p].lang)
        IN  IF TranslateDbOutcome(out, value) = "set"
            THEN SetEnter(p, [pr[p] EXCEPT !.val = value, !.found = value,
                                           !.dbout = out,
                                           !.steps = Append(pr[p].steps, "set")])
            ELSE /\ pr' = [pr EXCEPT ![p] =
                            [pr[p] EXCEPT !.pc = "done", !.dbout = out,
                                          !.st = TranslateDbOutcome(out, value)]]
                 /\ UNCHANGED <<redisStore, memoryCache, last, gone, flushed, failRun>>
    /\ UNCHANGED <<redis, link, now, db, nops, fin, fout, sdk>>

-----------------------------------------------------------------------------
(* POST /translate/batch: languages.ts 200-239 *)

BatchKeys == UNION {[1..n -> Keys] : n \in 0..MaxBatch}

\* lines 211-212: keys.map runs every key's lookup up to its first await.
BatchItemStart(item) ==
    IF redis THEN [item EXCEPT !.pc = "await_get"] ELSE getFallback(item)

\* lines 210 and 237: Promise.all resolves when every lookup has, and the reply
\* carries their results; it rejects with the first lookup that rejects, the
\* handler has no try block, and the server answers 500 to a handler that
\* throws. The other lookups run on after a rejection.
BatchSettle(rec) ==
    LET threw == \E i \in DOMAIN rec.items : rec.items[i].pc = "threw"
        settled == \A i \in DOMAIN rec.items : rec.items[i].pc \in {"done", "threw"}
    IN  [rec EXCEPT !.pc = IF settled THEN "done" ELSE "await_items",
                    !.st = IF threw THEN "500"
                           ELSE IF settled THEN "200" ELSE rec.st]

\* lines 203-212. The body is checked only for keys and lang being there.
BatchCall(p) ==
    /\ CanLookup(p)
    /\ \/ /\ pr' = [pr EXCEPT ![p] =
                    [Begin("batch", <<>>, <<>>, NULL) EXCEPT !.pc = "done", !.st = "400"]]
          /\ UNCHANGED <<last, failRun>>
       \/ \E ks \in BatchKeys, l \in Langs :
            LET items == [i \in 1..Len(ks) |->
                            BatchItemStart([Begin("item", ks[i], l, NULL) EXCEPT
                                               !.steps = <<"get">>])]
                local == ~redis /\ ks # <<>>
            IN  /\ pr' = [pr EXCEPT ![p] =
                            BatchSettle([Begin("batch", <<>>, l, NULL) EXCEPT
                                            !.items = items])]
                /\ last' = IF local THEN NoLast ELSE last
                /\ failRun' = IF local THEN NextFailRun(FALSE, "get") ELSE failRun
    /\ nops' = nops + 1
    /\ UNCHANGED <<redis, link, redisStore, memoryCache, now, db, gone, flushed,
                   fin, fout, sdk>>

\* cacheService.get of one key resolves (line 212). The keys' GET commands were
\* sent in one sweep over one connection, which answers in the order sent.
BatchItemGetReply(p) ==
    /\ pr[p].op = "batch"
    /\ pr[p].pc = "await_items"
    /\ \E i \in DOMAIN pr[p].items, out \in Outcomes :
        /\ pr[p].items[i].pc = "await_get"
        /\ \A j \in 1..(i - 1) : pr[p].items[j].pc # "await_get"
        /\ pr' = [pr EXCEPT ![p] =
                    BatchSettle([pr[p] EXCEPT !.items[i] = getAfterRedis(@, out)])]
        /\ failRun' = NextFailRun(out = "ok", "get")
    /\ last' = NoLast
    /\ UNCHANGED <<redis, link, redisStore, memoryCache, now, db, nops, gone,
                   flushed, fin, fout, sdk>>

\* lines 216-232: what follows the query of one key. A rejected query rejects
\* the lookup; no key or no approved translation is found: false (lines
\* 227-229); otherwise the translation is cached (line 232).
BatchDbOutcome(out, value) ==
    IF out # "ok" THEN "threw"
    ELSE IF value = NULL THEN "absent"
    ELSE "set"

\* prisma.translationKey.findFirst of one key settles (lines 216-233).
BatchItemDbReply(p) ==
    /\ pr[p].op = "batch"
    /\ pr[p].pc = "await_items"
    /\ \E i \in DOMAIN pr[p].items, out \in {"ok", "err"} :
        LET item == pr[p].items[i]
            value == Approved(item.key, item.lang)
            outcome == BatchDbOutcome(out, value)
            setting == [item EXCEPT !.val = value, !.found = value,
                                    !.dbout = out,
                                    !.steps = Append(item.steps, "set")]
        IN  /\ item.pc = "await_db"
            /\ IF outcome = "set"
               THEN IF redis
                    THEN /\ pr' = [pr EXCEPT ![p].items[i] =
                                      [setting EXCEPT !.pc = "await_setex"]]
                         /\ UNCHANGED <<redisStore, memoryCache, last, gone,
                                        flushed, failRun>>
                    ELSE /\ pr' = [pr EXCEPT ![p] =
                                      BatchSettle([pr[p] EXCEPT !.items[i] =
                                          setReturn(setting, "none", TRUE)])]
                         /\ memoryCache' = memorySet(CK(setting), value)
                         /\ SetHistory(setting, FALSE)
                         /\ UNCHANGED redisStore
               ELSE /\ pr' = [pr EXCEPT ![p] =
                                 BatchSettle([pr[p] EXCEPT !.items[i] =
                                     IF outcome = "absent"
                                     THEN [item EXCEPT !.pc = "done", !.st = "absent",
                                                       !.dbout = out]
                                     ELSE [item EXCEPT !.pc = "threw",
                                                       !.dbout = out]])]
                    /\ UNCHANGED <<redisStore, memoryCache, last, gone, flushed,
                                   failRun>>
    /\ UNCHANGED <<redis, link, now, db, nops, fin, fout, sdk>>

\* cacheService.set of one key resolves (line 232).
BatchItemSetReply(p) ==
    /\ pr[p].op = "batch"
    /\ pr[p].pc = "await_items"
    /\ \E i \in DOMAIN pr[p].items, out \in Outcomes :
        LET item == pr[p].items[i]
        IN  /\ item.pc = "await_setex"
            /\ pr' = [pr EXCEPT ![p] =
                        BatchSettle([pr[p] EXCEPT !.items[i] =
                            setReturn(item, out, setWritesLocal(out))])]
            /\ redisStore' = IF out = "ok"
                             THEN redisSetex(CK(item), item.val)
                             ELSE redisStore
            /\ memoryCache' = IF setWritesLocal(out)
                              THEN memorySet(CK(item), item.val)
                              ELSE memoryCache
            /\ SetHistory(item, out = "ok")
    /\ UNCHANGED <<redis, link, now, db, nops, fin, fout, sdk>>

-----------------------------------------------------------------------------
(* PUT /contribute/:id/approve: part_001 130-185 *)

\* lines 133-149: the contribution is looked up and marked approved. A
\* contribution carries the key, the language and the suggested value it was
\* submitted with (a non-empty string, by contributeSchema).
ApproveCall(p) ==
    /\ CanRequest(p)
    /\ \E k \in Keys, l \in Langs, v \in Values \ {""},
          out \in {"ok", "notfound", "err"} :
        pr' = [pr EXCEPT ![p] =
                 IF out = "ok"
                 THEN [Begin("approve", k, l, v) EXCEPT !.pc = "await_upsert"]
                 ELSE [Begin("approve", k, l, v) EXCEPT
                          !.pc = "done",
                          !.st = IF out = "notfound" THEN "404" ELSE "500"]]
    /\ nops' = nops + 1
    /\ UNCHANGED <<redis, link, redisStore, memoryCache, now, db, last, gone,
                   flushed, failRun, fin, fout, sdk>>

\* lines 152-179: the translation is upserted and the reply sent; the cache is
\* not touched.
ApproveUpsertReply(p) ==
    /\ pr[p].pc = "await_upsert"
    /\ \E out \in {"ok", "err"} :
        /\ pr' = [pr EXCEPT ![p] =
                    [pr[p] EXCEPT !.pc = "done",
                                  !.st = IF out = "ok" THEN "200" ELSE "500",
                                  !.res = IF out = "ok" THEN pr[p].val ELSE NULL]]
        /\ db' = IF out = "ok"
                 THEN MapSet(db, <<pr[p].key, pr[p].lang>>, pr[p].val)
                 ELSE db
    /\ UNCHANGED <<redis, link, redisStore, memoryCache, now, nops, last, gone,
                   flushed, failRun, fin, fout, sdk>>

-----------------------------------------------------------------------------
(* The environment: the connection's events and the clock *)

\* initRedis, lines 26-29: the 'error' handler drops the handle.
RedisError ==
    /\ link # "error"
    /\ link' = "error"
    /\ redis' = FALSE
    /\ UNCHANGED <<redisStore, memoryCache, now, db, pr, nops, last, gone, flushed,
                   failRun, fin, fout, sdk>>

\* initRedis, lines 31-33: the 'connect' handler logs and does nothing else.
\* The client connects at start and reconnects by itself after an error.
RedisConnect ==
    /\ link # "connected"
    /\ link' = "connected"
    /\ UNCHANGED <<redis, redisStore, memoryCache, now, db, pr, nops, last, gone,
                   flushed, failRun, fin, fout, sdk>>

\* Time passes; the shared tier drops the keys whose TTL has run out.
Tick ==
    /\ now < MaxTicks * TickMs
    /\ now' = now + TickMs
    /\ redisStore' = [c \in {d \in DOMAIN redisStore : redisStore[d].expiresAt > now'}
                        |-> redisStore[c]]
    /\ last' = NoLast
    /\ UNCHANGED <<redis, link, memoryCache, db, pr, nops, gone, flushed, failRun,
                   fin, fout, sdk>>

-----------------------------------------------------------------------------
(* The SDK client: sdk-js index.ts *)

Undefined == <<"<undefined>">>

\* JSON null, as a value of the same kind as the keys and values of the SDK.
JsonNull == <<"<null>">>

\* `options.defaultLang || 'en'` of a client constructed without defaultLang.
defaultLang == <<"e", "n">>

\* `lang || this.defaultLang`, line 150.
targetLangOf(lang) == IF lang = Undefined \/ lang = <<>> THEN defaultLang ELSE lang

\* `${key}:${targetLang}`, lines 156 and 194.
sdkCacheKey(key, lang) == key \o <<":">> \o lang

\* this.cache.get(cacheKey)
sdkCacheGet(cache, ck) == IF ck \in DOMAIN cache THEN cache[ck] ELSE Undefined

\* The truthiness of a string, undefined or null.
SdkTruthy(v) == v \notin {Undefined, JsonNull, <<>>}

SdkKeys == {<<"a">>, <<"b">>}

SdkKeyLists == UNION {[1..n -> SdkKeys] : n \in 0..MaxSdkKeys}

SdkLangs == {Undefined, LangTr}

\* The values the batch handler sends for a key: a cached or approved value
\* (not empty: contributeSchema, and `if (cached)`), or null when none is found.
SdkValues == {<<"v", "1">>, <<"v", "2">>}

ServerValues == SdkValues \cup {JsonNull}

NoResponse == [kind |-> "none", translations |-> <<>>]

\* What fetch gives for POST /translate/batch with body {keys, lang}: a
\* rejection (network failure), a response that is not ok, or the handler's
\* reply {translations}, one result per key of the body in the body's order
\* (languages.ts 210-237), equal keys looked up alike.
BatchResponses(keys) ==
    {[kind |-> "network", translations |-> <<>>],
     [kind |-> "status", translations |-> <<>>]}
    \cup {[kind |-> "ok",
           translations |-> [i \in DOMAIN keys |->
                                [key |-> keys[i], value |-> f[keys[i]]]]] :
            f \in [{keys[i] : i \in DOMAIN keys} -> ServerValues]}

SdkIdle ==
    [cache |-> EmptyMap, pc |-> "idle", keys |-> <<>>, lang |-> <<>>,
     results |-> EmptyMap, uncachedKeys |-> <<>>, cache0 |-> EmptyMap,
     response |-> NoResponse, calls |-> 0]

\* lines 154-164: a truthy cached value goes to the results, any other key to
\* uncachedKeys.
RECURSIVE checkCacheFrom(_, _, _, _, _, _)
checkCacheFrom(keys, i, lang, cache, results, uncachedKeys) ==
    IF i > Len(keys) THEN [results |-> results, uncachedKeys |-> uncachedKeys]
    ELSE LET cached == sdkCacheGet(cache, sdkCacheKey(keys[i], lang))
         IN  IF SdkTruthy(cached)
             THEN checkCacheFrom(keys, i + 1, lang, cache,
                                 MapSet(results, keys[i], cached), uncachedKeys)
             ELSE checkCacheFrom(keys, i + 1, lang, cache, results,
                                 Append(uncachedKeys, keys[i]))

\* lines 192-200: a truthy value is cached and returned, else the key is.
RECURSIVE applyTranslationsFrom(_, _, _, _, _)
applyTranslationsFrom(translations, i, lang, cache, results) ==
    IF i > Len(translations) THEN [cache |-> cache, results |-> results]
    ELSE LET translation == translations[i]
         IN  IF SdkTruthy(translation.value)
             THEN applyTranslationsFrom(translations, i + 1, lang,
                     MapSet(cache, sdkCacheKey(translation.key, lang),
                            translation.value),
                     MapSet(results, translation.key, translation.value))
             ELSE applyTranslationsFrom(translations, i + 1, lang, cache,
                     MapSet(results, translation.key, translation.key))

\* A variant of the catch block that rejects the call.
tBatchCatch_rethrown(s, resp) == [s EXCEPT !.pc = "threw", !.response = resp]

\* lines 201-208: every uncached key without a result gets itself.
tBatchCatch(s, resp) ==
    [s EXCEPT !.pc = "done", !.response = resp,
              !.results = [k \in DOMAIN s.results
                                 \cup {s.uncachedKeys[i] : i \in DOMAIN s.uncachedKeys}
                             |-> IF k \in DOMAIN s.results THEN s.results[k] ELSE k]]

\* lines 169-208, after the await of fetch.
tBatchAfterFetch(s, resp) ==
    IF resp.kind = "ok"
    THEN LET a == applyTranslationsFrom(resp.translations, 1, s.lang, s.cache,
                                        s.results)
         IN  [s EXCEPT !.pc = "done", !.response = resp, !.cache = a.cache,
                       !.results = a.results]
    ELSE tBatchCatch(s, resp)

\* tBatch(keys, lang) up to the await of fetch, or all of it when every key is
\* cached.
TBatchCall ==
    /\ sdk.pc \in {"idle", "done"}
    /\ sdk.calls < MaxSdkCalls
    /\ \E keys \in SdkKeyLists, lang \in SdkLangs :
        LET targetLang == targetLangOf(lang)
            chk == checkCacheFrom(keys, 1, targetLang, sdk.cache, EmptyMap, <<>>)
        IN  sdk' = [sdk EXCEPT
                       !.pc = IF Len(chk.uncachedKeys) > 0 THEN "await_fetch"
                              ELSE "done",
                       !.keys = keys, !.lang = targetLang,
                       !.results = chk.results,
                       !.uncachedKeys = chk.uncachedKeys,
                       !.cache0 = sdk.cache, !.response = NoResponse,
                       !.calls = @ + 1]
    /\ UNCHANGED <<redis, link, redisStore, memoryCache, now, db, pr, nops, last,
                   gone, flushed, failRun, fin, fout>>

TBatchResponse ==
    /\ sdk.pc = "await_fetch"
    /\ \E resp \in BatchResponses(sdk.uncachedKeys) :
        sdk' = tBatchAfterFetch(sdk, resp)
    /\ UNCHANGED <<redis, link, redisStore, memoryCache, now, db, pr, nops, last,
                   gone, flushed, failRun, fin, fout>>

\* An entry of the LRU cache reaches its ttl.
SdkCacheExpire ==
    /\ \E ck \in DOMAIN sdk.cache :
        sdk' = [sdk EXCEPT !.cache = MapDelete(@, {ck})]
    /\ UNCHANGED <<redis, link, redisStore, memoryCache, now, db, pr, nops, last,
                   gone, flushed, failRun, fin, fout>>

-----------------------------------------------------------------------------
(* The service *)

NoInput == <<>>

Init ==
    /\ redis = TRUE
    /\ link = "connecting"
    /\ redisStore = EmptyMap
    /\ memoryCache = EmptyMap
    /\ now = 0
    /\ db = EmptyMap
    /\ pr = [p \in AllProcs |-> Idle]
    /\ nops = 0
    /\ last = NoLast
    /\ gone = [c \in CacheKeys |-> NotGone]
    /\ flushed = NotGone
    /\ failRun = "init"
    /\ fin = NoInput
    /\ fout = NoInput
    /\ sdk = SdkIdle

\* The cache service under any sequence of calls of its six operations.
Next ==
    \/ \E p \in AllProcs :
        \/ GetCall(p) \/ GetReply(p)
        \/ SetCall(p) \/ SetReply(p)
        \/ DeleteCall(p) \/ DeleteReply(p)
        \/ ClearLanguageCall(p) \/ ClearLanguageKeysReply(p)
        \/ ClearLanguageDelReply(p)
        \/ ClearAllCall(p) \/ ClearAllReply(p)
        \/ GetStatsCall(p)
    \/ RedisError
    \/ RedisConnect
    \/ Tick

Spec == Init /\ [][Next]_vars

\* The server: translate and approve requests over the cache and the store.
NextRoutes ==
    \/ \E p \in AllProcs :
        \/ TranslateCall(p) \/ GetReply(p)
        \/ TranslateDbReply(p) \/ SetReply(p)
        \/ ApproveCall(p) \/ ApproveUpsertReply(p)
    \/ RedisError
    \/ RedisConnect
    \/ Tick

SpecRoutes == Init /\ [][NextRoutes]_vars

\* The store's content when the server starts: approved translations of some
\* keys in one language, none in the other.
Stores == UNION {[ps -> {"v1"}] : ps \in SUBSET (Keys \X {LangTr})}

InitLookup ==
    /\ redis = TRUE
    /\ link = "connecting"
    /\ redisStore = EmptyMap
    /\ memoryCache = EmptyMap
    /\ now = 0
    /\ db \in Stores
    /\ pr = [p \in AllProcs |-> Idle]
    /\ nops = 0
    /\ last = NoLast
    /\ gone = [c \in CacheKeys |-> NotGone]
    /\ flushed = NotGone
    /\ failRun = "init"
    /\ fin = NoInput
    /\ fout = NoInput
    /\ sdk = SdkIdle

\* The lookups: GET /translate and POST /translate/batch over the cache and a
\* store that holds some approved translations.
NextLookup ==
    \/ \E p \in AllProcs :
        \/ CanLookup(p) /\ TranslateCall(p)
        \/ GetReply(p)
        \/ TranslateDbReply(p) \/ SetReply(p)
        \/ BatchCall(p) \/ BatchItemGetReply(p)
        \/ BatchItemDbReply(p) \/ BatchItemSetReply(p)
    \/ RedisError
    \/ RedisConnect
    \/ Tick

SpecLookup == InitLookup /\ [][NextLookup]_vars

\* Two callers of the cache at once.
ConcProcs == {"r1", "r2"}

InitSets ==
    /\ redis = TRUE
    /\ link = "connecting"
    /\ redisStore = EmptyMap
    /\ memoryCache = EmptyMap
    /\ now = 0
    /\ db = EmptyMap
    /\ pr = [p \in ConcProcs |-> Idle]
    /\ nops = 0
    /\ last = NoLast
    /\ gone = [c \in CacheKeys |-> NotGone]
    /\ flushed = NotGone
    /\ failRun = "init"
    /\ fin = NoInput
    /\ fout = NoInput
    /\ sdk = SdkIdle

\* Concurrent set and get calls, their awaits interleaved, with the
\* connection's events; the clock stands still.
NextSets ==
    \/ \E p \in ConcProcs :
        \/ SetCall(p) \/ SetReply(p)
        \/ GetCall(p) \/ GetReply(p)
    \/ RedisError
    \/ RedisConnect

SpecSets == InitSets /\ [][NextSets]_vars

-----------------------------------------------------------------------------
(* The composite cache key as a function of the strings the routes accept *)

Chars == {"a", ":"}

StringsOf(lo, hi) == UNION {[1..n -> Chars] : n \in lo..hi}

\* translateSchema: key is z.string().min(1), lang is z.string().min(2).max(10).
AcceptedPairs ==
    StringsOf(MinKeyLen, MaxKeyLen) \X StringsOf(MinLangLen, MaxLangLen)

InitKey ==
    /\ redis = TRUE
    /\ link = "connecting"
    /\ redisStore = EmptyMap
    /\ memoryCache = EmptyMap
    /\ now = 0
    /\ db = EmptyMap
    /\ pr = [p \in AllProcs |-> Idle]
    /\ nops = 0
    /\ last = NoLast
    /\ gone = [c \in CacheKeys |-> NotGone]
    /\ flushed = NotGone
    /\ failRun = "init"
    /\ fin \in AcceptedPairs \X AcceptedPairs
    /\ fout = NoInput
    /\ sdk = SdkIdle

GetCacheKeyApply ==
    /\ fout = NoInput
    /\ fout' = <<getCacheKey(fin[1][1], fin[1][2]), getCacheKey(fin[2][1], fin[2][2])>>
    /\ UNCHANGED <<sdk, fin, redis, link, redisStore, memoryCache, now, db, pr, nops,
                   last, gone, flushed, failRun>>

NextKey == GetCacheKeyApply

SpecKey == InitKey /\ [][NextKey]_vars

-----------------------------------------------------------------------------
(* SemanticEngine: strings *)

LowerLetters ==
    {"a", "b", "c", "d", "e", "f", "g", "h", "i", "j", "k", "l", "m", "n", "o",
     "p", "q", "r", "s", "t", "u", "v", "w", "x", "y", "z"}

UpperLetters == {"A", "B", "C"}

\* String.prototype.toLowerCase, one character.
toLowerChar(c) ==
    CASE c = "A" -> "a"
      [] c = "B" -> "b"
      [] c = "C" -> "c"
      [] OTHER -> c

\* A variant of toLowerCase that leaves the string as it is.
toLowerCase_identity(s) == s

\* String.prototype.toLowerCase
toLowerCase(s) == [i \in 1..Len(s) |-> toLowerChar(s[i])]

\* The value undefined, where a string may be missing.
\* A variant of `x || 'default'` that keeps x.
OrDefault_kept(s) == s

\* 'default', lines 38, 47 and 110.
defaultContext == <<"d", "e", "f", "a", "u", "l", "t">>

\* `x || 'default'` (lines 38 and 47): undefined and "" give "default".
OrDefault(s) == IF s = Undefined \/ s = <<>> THEN defaultContext ELSE s

\* String.prototype.indexOf for one character; 0 when it does not occur.
IndexOf(s, c) ==
    IF \E i \in 1..Len(s) : s[i] = c
    THEN CHOOSE i \in 1..Len(s) : s[i] = c /\ \A j \in 1..(i - 1) : s[j] # c
    ELSE 0

\* String.prototype.split(':'), line 44: the string is cut at every separator.
RECURSIVE split(_)
split(s) ==
    LET p == IndexOf(s, ":")
    IN  IF p = 0 THEN <<s>>
        ELSE <<SubSeq(s, 1, p - 1)>> \o split(SubSeq(s, p + 1, Len(s)))

\* intentSeparator and contextSeparator, lines 25-26, and the prefix of line 57.
intentSeparator == <<":">>

contextSeparator == <<"+", "c", "o", "n", "t", "e", "x", "t", ":">>

intentPrefix == <<"i", "n", "t", "e", "n", "t", ":">>

-----------------------------------------------------------------------------
(* SemanticEngine.parseKey and generateKey *)

\* [a-z] and [a-z_] under the i flag.
IsLetter(c) == c \in LowerLetters \cup UpperLetters

IsWordChar(c) == IsLetter(c) \/ c = "_"

AllLetters(s) == \A i \in 1..Len(s) : IsLetter(s[i])

AllWordChars(s) == \A i \in 1..Len(s) : IsWordChar(s[i])

NoMatch == [matched |-> FALSE, g1 |-> <<>>, g2 |-> <<>>, g3 |-> Undefined]

\* key.match(keyPattern), lines 24 and 33, with
\* keyPattern = /^([a-z]+):([a-z_]+)(?:\+context:([a-z_]+))?$/i.
\* Group 1 holds no ':', so it ends at the first ':' of the key; group 2 holds
\* no '+', so it ends at the first '+' after that or at the end of the key.
keyPatternMatch(key) ==
    LET p == IndexOf(key, ":")
        g1 == SubSeq(key, 1, p - 1)
        rest == SubSeq(key, p + 1, Len(key))
        q == IndexOf(rest, "+")
        g2 == IF q = 0 THEN rest ELSE SubSeq(rest, 1, q - 1)
        tail == IF q = 0 THEN <<>> ELSE SubSeq(rest, q, Len(rest))
        sep == SubSeq(tail, 1, Len(contextSeparator))
        g3 == SubSeq(tail, Len(contextSeparator) + 1, Len(tail))
    IN  IF p = 0 \/ g1 = <<>> \/ ~AllLetters(g1)
           \/ g2 = <<>> \/ ~AllWordChars(g2)
        THEN NoMatch
        ELSE IF q = 0
        THEN [matched |-> TRUE, g1 |-> g1, g2 |-> g2, g3 |-> Undefined]
        ELSE IF /\ Len(tail) > Len(contextSeparator)
                /\ toLowerCase(sep) = contextSeparator
                /\ AllWordChars(g3)
        THEN [matched |-> TRUE, g1 |-> g1, g2 |-> g2, g3 |-> g3]
        ELSE NoMatch

\* `s?.toLowerCase()`: undefined stays undefined.
OptLower(s) == IF s = Undefined THEN Undefined ELSE toLowerCase(s)

\* parseKey, lines 32-50.
parseKey(key) ==
    LET match == keyPatternMatch(key)
        parts == split(key)
    IN  IF match.matched
        THEN [intent |-> toLowerCase(match.g1),
              context |-> OrDefault(OptLower(match.g3)),
              raw |-> key]
        ELSE [intent |-> toLowerCase(parts[1]),
              context |-> OrDefault(OptLower(IF Len(parts) >= 2 THEN parts[2]
                                             ELSE Undefined)),
              raw |-> key]

\* generateKey, lines 55-60: `if (context)` is false for undefined and "".
generateKey(intent, context) ==
    IF context # Undefined /\ context # <<>>
    THEN intentPrefix \o intent \o contextSeparator \o context
    ELSE intentPrefix \o intent

-----------------------------------------------------------------------------
(* SemanticEngine.findBestMatch *)

\* isContextRelated, lines 124-132.
startsWith(s, prefix) == Len(prefix) <= Len(s) /\ SubSeq(s, 1, Len(prefix)) = prefix

includes(s, part) ==
    \E i \in 1..(Len(s) - Len(part) + 1) : SubSeq(s, i, i + Len(part) - 1) = part

\* A variant of the relation that looks at prefixes only.
isContextRelated_prefixOnly(ctx1, ctx2) ==
    startsWith(ctx1, ctx2) \/ startsWith(ctx2, ctx1)

isContextRelated(ctx1, ctx2) ==
    \/ startsWith(ctx1, ctx2)
    \/ startsWith(ctx2, ctx1)
    \/ includes(ctx1, ctx2)
    \/ includes(ctx2, ctx1)

\* A variant of the score that gives the intent no more weight than a related
\* context.
calculateMatchScore_weakIntent(keyIntent, keyContext, targetIntent, targetContext) ==
    (IF keyIntent = targetIntent THEN 2 ELSE 0)
    + (IF keyContext = targetContext THEN 5
       ELSE IF keyContext = defaultContext THEN 1
       ELSE IF isContextRelated(keyContext, targetContext) THEN 2
       ELSE 0)

\* calculateMatchScore, lines 94-119.
calculateMatchScore(keyIntent, keyContext, targetIntent, targetContext) ==
    (IF keyIntent = targetIntent THEN 10 ELSE 0)
    + (IF keyContext = targetContext THEN 5
       ELSE IF keyContext = defaultContext THEN 1
       ELSE IF isContextRelated(keyContext, targetContext) THEN 2
       ELSE 0)

\* A variant of the comparison that also replaces the best match on a tie.
replacesBest_orEqual(score, highestScore) == score >= highestScore

\* line 81
replacesBest(score, highestScore) == score > highestScore

\* The loop of lines 73-85 from position i on. bestMatch is the position of the
\* candidate the reference points to, 0 for null.
RECURSIVE findBestMatchFrom(_, _, _, _, _)
findBestMatchFrom(availableKeys, target, i, bestMatch, highestScore) ==
    IF i > Len(availableKeys)
    THEN bestMatch
    ELSE LET key == availableKeys[i]
             score == calculateMatchScore(key.intent, key.context, target.intent,
                                          target.context)
         IN  IF replacesBest(score, highestScore)
             THEN findBestMatchFrom(availableKeys, target, i + 1, i, score)
             ELSE findBestMatchFrom(availableKeys, target, i + 1, bestMatch,
                                    highestScore)

\* findBestMatch, lines 65-88.
findBestMatch(availableKeys, targetIntent, targetContext) ==
    findBestMatchFrom(availableKeys,
                      [intent |-> targetIntent, context |-> targetContext], 1, 0, 0)

-----------------------------------------------------------------------------
(* SemanticEngine.groupByIntent *)

\* A variant of the loop body that puts the key in front of its group.
groupPush_front(groups, key) ==
    MapSet(groups, key.intent,
           <<key>> \o (IF key.intent \in DOMAIN groups THEN groups[key.intent]
                       ELSE <<>>))

\* lines 162-164: the key is appended to its intent's list.
groupPush(groups, key) ==
    MapSet(groups, key.intent,
           Append(IF key.intent \in DOMAIN groups THEN groups[key.intent] ELSE <<>>,
                  key))

\* The loop of lines 161-165 from position i on.
RECURSIVE groupByIntentFrom(_, _, _)
groupByIntentFrom(keys, i, groups) ==
    IF i > Len(keys) THEN groups
    ELSE groupByIntentFrom(keys, i + 1, groupPush(groups, keys[i]))

\* groupByIntent, lines 158-168.
groupByIntent(keys) == groupByIntentFrom(keys, 1, EmptyMap)

-----------------------------------------------------------------------------
(* SemanticEngine.extractIntents *)

\* A variant of Set.add that keeps a second copy of a member.
setAdd_again(members, x) == Append(members, x)

\* Set.prototype.add, line 149; the members are kept in insertion order.
setAdd(members, x) ==
    IF \E i \in 1..Len(members) : members[i] = x THEN members
    ELSE Append(members, x)

\* The loop of lines 147-150 from position i on.
RECURSIVE extractIntentsFrom(_, _, _)
extractIntentsFrom(keys, i, intents) ==
    IF i > Len(keys) THEN intents
    ELSE extractIntentsFrom(keys, i + 1, setAdd(intents, parseKey(keys[i]).intent))

\* extractIntents, lines 144-153: Array.from(intents).
extractIntents(keys) == extractIntentsFrom(keys, 1, <<>>)

-----------------------------------------------------------------------------
(* The engine's functions over bounded inputs *)

\* Raw keys that share intents: by letter case, by context, by pattern.
ExtractKeys ==
    {<<"a">>, <<"B">>, <<"b">>, <<"b", ":", "a">>, <<"a", ":", "a">>}

ExtractLists == UNION {[1..n -> ExtractKeys] : n \in 0..MaxExtractLen}

RawChars == {"a", "B", "_", ":", "+", "1"}

RawKeys == UNION {[1..n -> RawChars] : n \in 0..MaxRawLen}

\* Non-empty tokens over [a-z_].
TokenChars == {"a", "_"}

Tokens == UNION {[1..n -> TokenChars] : n \in 1..MaxTokenLen}

Greeting == <<"g", "r", "e", "e", "t", "i", "n", "g">>

AppEntry == <<"a", "p", "p", "_", "e", "n", "t", "r", "y">>

ExampleTokens == {Greeting, AppEntry}

\* "intent:" + I + "+context:" + C
Canonical(I, C) == intentPrefix \o I \o contextSeparator \o C

CanonicalKeys == {Canonical(I, C) : I \in Tokens, C \in Tokens}
                 \cup {Canonical(Greeting, AppEntry)}

\* Tokens over [a-z_] in either letter case.
ShapeTokens == Tokens \cup {<<"B">>, <<"a", "B">>}

\* T + ":" + V, and T + ":" + V + "+context:" + C
Shape(T, V) == T \o intentSeparator \o V

ShapeWithContext(T, V, C) == Shape(T, V) \o contextSeparator \o C

ShapeKeys ==
    {Shape(T, V) : T \in ShapeTokens, V \in ShapeTokens}
    \cup {ShapeWithContext(T, V, C) :
            T \in ShapeTokens, V \in ShapeTokens, C \in ShapeTokens}

EngineIntents == {<<"a">>, <<"b">>}

EngineContexts == {defaultContext, <<"x">>, <<"x", "y">>, <<"z">>}

Candidates ==
    [intent : EngineIntents, context : EngineContexts, raw : {<<"k">>}]

CandidateLists == UNION {[1..n -> Candidates] : n \in 0..MaxCandidates}

GroupKeys ==
    [intent : EngineIntents, context : {<<"x">>}, raw : {<<"k">>, <<"m">>}]

GroupLists == UNION {[1..n -> GroupKeys] : n \in 0..MaxGroupLen}

Farewell == <<"f", "a", "r", "e", "w", "e", "l", "l">>

ScoreIntents == {Greeting, Farewell, <<"a">>}

\* "", "default", "app_entry", its prefix "app", its suffix "entry", its inner
\* part "p_e", and the unrelated "z".
ScoreContexts ==
    {<<>>, defaultContext, AppEntry, <<"a", "p", "p">>,
     <<"e", "n", "t", "r", "y">>, <<"p", "_", "e">>, <<"z">>}

EngineInputs ==
    {[f |-> "parseKey", key |-> k] : k \in RawKeys \cup CanonicalKeys \cup ShapeKeys}
    \cup {[f |-> "generateKey", intent |-> I, context |-> C] :
            I \in Tokens \cup {Greeting},
            C \in Tokens \cup {AppEntry, Undefined}}
    \cup {[f |-> "findBestMatch", availableKeys |-> ks, targetIntent |-> ti,
           targetContext |-> tc] :
            ks \in CandidateLists, ti \in EngineIntents, tc \in EngineContexts}
    \cup {[f |-> "groupByIntent", keys |-> ks] : ks \in GroupLists}
    \cup {[f |-> "extractIntents", raws |-> ks] : ks \in ExtractLists}
    \cup {[f |-> "calculateMatchScore", keyIntent |-> ki, keyContext |-> kc,
           targetIntent |-> ti, targetContext |-> tc] :
            ki \in ScoreIntents, kc \in ScoreContexts,
            ti \in ScoreIntents, tc \in ScoreContexts}

InitEngine ==
    /\ redis = TRUE
    /\ link = "connecting"
    /\ redisStore = EmptyMap
    /\ memoryCache = EmptyMap
    /\ now = 0
    /\ db = EmptyMap
    /\ pr = [p \in AllProcs |-> Idle]
    /\ nops = 0
    /\ last = NoLast
    /\ gone = [c \in CacheKeys |-> NotGone]
    /\ flushed = NotGone
    /\ failRun = "init"
    /\ fin \in {<<x>> : x \in EngineInputs}
    /\ fout = NoInput
    /\ sdk = SdkIdle

\* An engine function is applied to the input and its result kept.
EngineApplies(f) == fout = NoInput /\ fin[1].f = f

ParseKeyApply ==
    /\ EngineApplies("parseKey")
    /\ fout' = <<parseKey(fin[1].key)>>
    /\ UNCHANGED <<sdk, fin, redis, link, redisStore, memoryCache, now, db, pr, nops,
                   last, gone, flushed, failRun>>

\* generateKey, and parseKey of the key it made.
GenerateKeyApply ==
    /\ EngineApplies("generateKey")
    /\ LET key == generateKey(fin[1].intent, fin[1].context)
       IN  fout' = <<[key |-> key, parsed |-> parseKey(key)]>>
    /\ UNCHANGED <<sdk, fin, redis, link, redisStore, memoryCache, now, db, pr, nops,
                   last, gone, flushed, failRun>>

FindBestMatchApply ==
    /\ EngineApplies("findBestMatch")
    /\ fout' = <<[bestMatch |-> findBestMatch(fin[1].availableKeys,
                                              fin[1].targetIntent,
                                              fin[1].targetContext)]>>
    /\ UNCHANGED <<sdk, fin, redis, link, redisStore, memoryCache, now, db, pr, nops,
                   last, gone, flushed, failRun>>

GroupByIntentApply ==
    /\ EngineApplies("groupByIntent")
    /\ fout' = <<[groups |-> groupByIntent(fin[1].keys)]>>
    /\ UNCHANGED <<sdk, fin, redis, link, redisStore, memoryCache, now, db, pr, nops,
                   last, gone, flushed, failRun>>

ExtractIntentsApply ==
    /\ EngineApplies("extractIntents")
    /\ fout' = <<[intents |-> extractIntents(fin[1].raws)]>>
    /\ UNCHANGED <<sdk, fin, redis, link, redisStore, memoryCache, now, db, pr, nops,
                   last, gone, flushed, failRun>>

CalculateMatchScoreApply ==
    /\ EngineApplies("calculateMatchScore")
    /\ fout' = <<[score |-> calculateMatchScore(fin[1].keyIntent,
                                                fin[1].keyContext,
                                                fin[1].targetIntent,
                                                fin[1].targetContext)]>>
    /\ UNCHANGED <<sdk, fin, redis, link, redisStore, memoryCache, now, db, pr, nops,
                   last, gone, flushed, failRun>>

NextEngine ==
    \/ ParseKeyApply
    \/ GenerateKeyApply
    \/ FindBestMatchApply
    \/ GroupByIntentApply
    \/ ExtractIntentsApply
    \/ CalculateMatchScoreApply

SpecEngine == InitEngine /\ [][NextEngine]_vars

-----------------------------------------------------------------------------
(* The SDK client against the batch route *)

InitSdk ==
    /\ redis = TRUE
    /\ link = "connecting"
    /\ redisStore = EmptyMap
    /\ memoryCache = EmptyMap
    /\ now = 0
    /\ db = EmptyMap
    /\ pr = [p \in AllProcs |-> Idle]
    /\ nops = 0
    /\ last = NoLast
    /\ gone = [c \in CacheKeys |-> NotGone]
    /\ flushed = NotGone
    /\ failRun = "init"
    /\ fin = NoInput
    /\ fout = NoInput
    /\ sdk = SdkIdle

NextSdk ==
    \/ TBatchCall
    \/ TBatchResponse
    \/ SdkCacheExpire

SpecSdk == InitSdk /\ [][NextSdk]_vars

-----------------------------------------------------------------------------
(* Steps of a behaviour, as the properties below name them *)

\* Request p starts in this step.
Starts(p) == nops' # nops /\ pr'[p] # pr[p]

\* Request p's operation op returns to its caller in this step.
Returns(p, op) ==
    /\ pr'[p].op = op
    /\ pr'[p].pc = "done"
    /\ pr[p].pc # "done" \/ Starts(p)

Holds(m, ck) == ck \in DOMAIN m

SameEntry(m1, m2, ck) ==
    /\ Holds(m1, ck) <=> Holds(m2, ck)
    /\ Holds(m1, ck) => m1[ck] = m2[ck]

-----------------------------------------------------------------------------
(* C1 *)

\* C1: a completed set(k, lang, v) followed immediately by get(k, lang), with no
\* other cache operation and no clock advance in between, returns v, whatever
\* the shared tier does at either call.
C1_SetThenGetReturnsValue ==
    [][\A p \in AllProcs :
        (Returns(p, "get") /\ last.ck = CK(pr'[p])) => pr'[p].res = last.val]_vars

-----------------------------------------------------------------------------
(* C2 *)

\* C2: approving a contribution for (key, lang) invalidates the cache for that
\* pair: a translate lookup that starts after the approval has completed returns
\* the approved translation (the one in the store when it started, or one
\* approved since), never a value cached before the approval.
C2_ApproveInvalidatesCache ==
    \A p \in AllProcs :
        (pr[p].op = "translate" /\ pr[p].pc = "done" /\ pr[p].st = "200"
            /\ pr[p].appr # NULL)
        => (pr[p].res = pr[p].appr \/ pr[p].res = Approved(pr[p].key, pr[p].lang))

-----------------------------------------------------------------------------
(* C3 *)

\* What the local-tier step of a completed operation leaves behind.
LocalStepDone(rec) ==
    CASE rec.op = "get" ->
            /\ rec.src # "redis"
            /\ rec.src = "local" => rec.res = memoryCache[CK(rec)].value
            /\ rec.src = "none" => rec.res = NULL
      [] rec.op = "set" ->
            /\ Holds(memoryCache, CK(rec))
            /\ memoryCache[CK(rec)].value = rec.val
      [] rec.op = "delete" -> ~Holds(memoryCache, CK(rec))
      [] rec.op = "clearLanguage" ->
            \A c \in DOMAIN memoryCache : ~endsWith(c, <<":">> \o rec.lang)
      [] rec.op = "clearAll" -> DOMAIN memoryCache = {}
      [] OTHER -> TRUE

\* C3: no CacheService operation fails or throws to its caller because of the
\* shared tier: whenever a command errors or the handle is dropped (also between
\* the keys scan and the del of clearLanguage), the operation completes normally
\* and its local-tier step has been performed.
C3_SharedTierFailureNeverSurfaces ==
    \A p \in AllProcs :
        /\ pr[p].pc # "threw"
        /\ pr[p].pc = "done" =>
            /\ pr[p].st = "ok"
            /\ pr[p].shared \in {"err", "dropped"} =>
                (pr[p].local /\ LocalStepDone(pr[p]))

\* The handle was dropped between the keys scan and the del of clearLanguage,
\* and the call completed with the local clear done.
C3_Witness ==
    \E p \in AllProcs :
        /\ pr[p].op = "clearLanguage"
        /\ pr[p].pc = "done"
        /\ pr[p].shared = "dropped"
        /\ pr[p].st = "ok"
        /\ pr[p].local

-----------------------------------------------------------------------------
(* C4 *)

Expired(ck) ==
    Holds(memoryCache, ck) /\ now >= memoryCache[ck].t + CACHE_TTL * 1000

\* C4: an entry written to the local tier by set at time t is never returned by
\* get at a time now >= t + TTL: get honours a local entry only while it is
\* live, and answers for an expired entry exactly as for an absent one (the
\* shared tier's value if it gave one, else absent).
C4_ExpiredEntryNotReturned ==
    [][\A p \in AllProcs :
        Returns(p, "get") =>
            LET rec == pr'[p]
                ck == CK(rec)
            IN  /\ rec.src = "local" =>
                    /\ Holds(memoryCache, ck)
                    /\ now < memoryCache[ck].t + CACHE_TTL * 1000
                    /\ rec.res = memoryCache[ck].value
                /\ Expired(ck) =>
                    rec.res = IF rec.shared = "ok" /\ Truthy(redisGet(ck))
                              THEN redisGet(ck)
                              ELSE NULL]_vars

\* A get at the instant the entry expired (now = t + TTL) answered absent while
\* the entry was still in the map.
C4_Witness ==
    \E p \in AllProcs :
        /\ pr[p].op = "get"
        /\ pr[p].pc = "done"
        /\ Holds(memoryCache, CK(pr[p]))
        /\ now = memoryCache[CK(pr[p])].t + CACHE_TTL * 1000
        /\ Truthy(memoryCache[CK(pr[p])].value)
        /\ pr[p].res = NULL

-----------------------------------------------------------------------------
(* C5 *)

\* A delete of a key that neither tier holds returns normally and changes nothing.
DeleteIdempotent ==
    \A p \in AllProcs :
        Returns(p, "delete") =>
            /\ pr'[p].st = "ok"
            /\ (~Holds(memoryCache, CK(pr'[p])) /\ ~Holds(redisStore, CK(pr'[p])))
                => (memoryCache' = memoryCache /\ redisStore' = redisStore)

-----------------------------------------------------------------------------
(* C6 *)

\* C6: clearLanguage(lang) removes every entry stored for lang (from the local
\* tier, and from the shared tier when its commands succeeded) and leaves every
\* entry stored for another language as it was, in both tiers.
C6_ClearLanguageOnlyThatLanguage ==
    [][\A p \in AllProcs :
        Returns(p, "clearLanguage") =>
            \A k \in Keys, l \in Langs :
                LET ck == getCacheKey(k, l)
                IN  IF l = pr'[p].lang
                    THEN /\ ~Holds(memoryCache', ck)
                         /\ pr'[p].shared = "ok" => ~Holds(redisStore', ck)
                    ELSE /\ SameEntry(memoryCache', memoryCache, ck)
                         /\ SameEntry(redisStore', redisStore, ck)]_vars

-----------------------------------------------------------------------------
(* C7 *)

-----------------------------------------------------------------------------
(* C8 *)

\* C8: once the connection is Connected again after an error, the service uses
\* the shared tier again: a get or a set that starts then issues its command to
\* the shared tier, and getStats reports it available.
C8_ReconnectRestoresSharedTier ==
    [][\A p \in AllProcs :
        (Starts(p) /\ link = "connected") =>
            /\ pr'[p].op = "getStats" => pr'[p].stats.redis
            /\ pr'[p].op = "get" => pr'[p].pc = "await_get"
            /\ pr'[p].op = "set" => pr'[p].pc = "await_setex"]_vars

-----------------------------------------------------------------------------
(* C9 *)

\* C9: if the shared tier has failed every command issued to it, then after a
\* set and a get have run getStats reports the shared tier unavailable; getStats
\* itself changes neither tier nor the connection state.
C9_FailingTierReportedUnavailable ==
    [][\A p \in AllProcs :
        Returns(p, "getStats") =>
            /\ failRun = "setget" => ~pr'[p].stats.redis
            /\ UNCHANGED <<redis, link, redisStore, memoryCache>>]_vars

-----------------------------------------------------------------------------
(* C10 *)

\* C10: the composite cache key is unique per (key, language): two different
\* pairs accepted by the translate routes never get the same cache key.
C10_CompositeKeyUnique ==
    (fout # NoInput /\ fin[1] # fin[2]) => fout[1] # fout[2]

-----------------------------------------------------------------------------
(* C11 *)

\* The lookups in progress or answered: GET /translate requests and the keys of
\* POST /translate/batch requests.
Lookups ==
    {pr[p] : p \in {q \in AllProcs : pr[q].op = "translate"}}
    \cup UNION {{pr[p].items[i] : i \in DOMAIN pr[p].items} : p \in AllProcs}

IsPrefix(s, t) == Len(s) <= Len(t) /\ SubSeq(t, 1, Len(s)) = s

\* The lookup answered with a value.
Answered(r) == r.pc = "done" /\ r.st \in {"200", "hit", "found"}

\* The lookup answered not-found.
NotFound(r) == r.pc = "done" /\ r.st \in {"404", "absent"}

\* C11: in every translate lookup the cache is consulted before the store, the
\* store is queried only after the cache missed, the cache is written only after
\* the store returned an approved translation (never on not-found), and the
\* reply's cached flag is true exactly when the value it carries came from the
\* cache and false when it came from the store.
C11_LookupFlowAndCachedFlag ==
    \A r \in Lookups :
        /\ r.steps # <<>>
        /\ IsPrefix(r.steps, <<"get", "db", "set">>)
        /\ Len(r.steps) >= 2 => (r.pc # "await_get" /\ ~Truthy(r.got))
        /\ Len(r.steps) = 3 =>
              (r.dbout = "ok" /\ r.found # NULL /\ r.val = r.found)
        /\ NotFound(r) => Len(r.steps) = 2
        /\ Answered(r) =>
              /\ r.cached <=>
                    (r.steps = <<"get">> /\ r.src \in {"redis", "local"}
                        /\ r.res = r.got)
              /\ ~r.cached <=> (Len(r.steps) = 3 /\ r.res = r.found)

\* A GET /translate answered from the shared tier with the value the store
\* holds, flagged as cached.
C11_Witness ==
    \E p \in AllProcs :
        /\ pr[p].op = "translate"
        /\ pr[p].pc = "done"
        /\ pr[p].st = "200"
        /\ pr[p].cached
        /\ pr[p].src = "redis"
        /\ pr[p].res = Approved(pr[p].key, pr[p].lang)
        /\ pr[p].steps = <<"get">>

-----------------------------------------------------------------------------
(* C12 *)

\* C12: a lookup is answered not-found only when the cache missed and the store,
\* queried successfully, holds no approved translation for the key and language;
\* a lookup whose store query failed is reported as an error (500), never as
\* not-found; and an error is reported only for a failed store query, never for
\* a failure of the shared cache tier.
C12_AbsentDistinctFromError ==
    /\ \A r \in Lookups :
          /\ NotFound(r) =>
                (~Truthy(r.got) /\ r.dbout = "ok" /\ Approved(r.key, r.lang) = NULL)
          /\ r.dbout = "err" => (r.pc \in {"done", "threw"} /\ ~NotFound(r))
    /\ \A p \in AllProcs :
          /\ (pr[p].op = "translate" /\ pr[p].pc = "done") =>
                (pr[p].st = "500" <=> pr[p].dbout = "err")
          /\ (pr[p].op = "batch" /\ pr[p].st # "400") =>
                (pr[p].st = "500" <=>
                    \E i \in DOMAIN pr[p].items : pr[p].items[i].dbout = "err")

\* A GET /translate whose shared-tier read failed and whose store query then
\* failed, answered 500.
C12_Witness ==
    \E p \in AllProcs :
        /\ pr[p].op = "translate"
        /\ pr[p].pc = "done"
        /\ pr[p].shared = "err"
        /\ pr[p].dbout = "err"
        /\ pr[p].st = "500"

-----------------------------------------------------------------------------
(* The engine's functions, as the properties below name them *)

\* The function f was applied; its input and its result.
Applied(f) == fout # NoInput /\ fin[1].f = f

In == fin[1]

Out == fout[1]

Contains(s, c) == \E i \in 1..Len(s) : s[i] = c

\* The string in lower case, character by character.
Lowered(s) ==
    [i \in 1..Len(s) |->
        IF s[i] \in UpperLetters
        THEN CHOOSE l \in LowerLetters : toLowerChar(s[i]) = l
        ELSE s[i]]

-----------------------------------------------------------------------------
(* C13 *)

\* C13: for every canonical string "intent:" + I + "+context:" + C with I and C
\* non-empty tokens over [a-z_], parseKey returns intent I and context C; in
\* particular for "intent:greeting+context:app_entry".
C13_ParseCanonical ==
    Applied("parseKey") =>
        \A I \in Tokens \cup ExampleTokens, C \in Tokens \cup ExampleTokens :
            In.key = Canonical(I, C) => (Out.intent = I /\ Out.context = C)

-----------------------------------------------------------------------------
(* C14 *)

\* C14: for every raw string without ':' (the empty string too), parseKey gives
\* the context "default" and the intent raw in lower case.
C14_ParseWithoutSeparator ==
    (Applied("parseKey") /\ ~Contains(In.key, ":")) =>
        (Out.context = defaultContext /\ Out.intent = Lowered(In.key))

\* parseKey of a string without ':' that holds an upper-case letter.
C14_Witness ==
    /\ Applied("parseKey")
    /\ In.key = <<"B", "+", "a">>
    /\ Out.intent = <<"b", "+", "a">>
    /\ Out.context = defaultContext

-----------------------------------------------------------------------------
(* C15 *)

\* C15: for every raw string that contains ':' and does not match the
\* canonical pattern, parseKey splits at the first ':' only: the intent is the
\* text before it and the context the whole remainder after it, both in lower
\* case, the context being "default" when the remainder is empty.
C15_ParseFallbackFirstSeparator ==
    (Applied("parseKey") /\ Contains(In.key, ":") /\ ~keyPatternMatch(In.key).matched) =>
        LET p == IndexOf(In.key, ":")
            remainder == SubSeq(In.key, p + 1, Len(In.key))
        IN  /\ Out.intent = Lowered(SubSeq(In.key, 1, p - 1))
            /\ Out.context = IF remainder = <<>> THEN defaultContext
                              ELSE Lowered(remainder)

-----------------------------------------------------------------------------
(* C16 *)

\* C16: parseKey is total: for every input string it returns a ParsedKey whose
\* raw field is the input unchanged and whose context is never empty (nor
\* missing).
C16_ParseTotal ==
    Applied("parseKey") =>
        /\ DOMAIN Out = {"intent", "context", "raw"}
        /\ Out.raw = In.key
        /\ Out.context # <<>>
        /\ Out.context # Undefined

\* parseKey of a string with several ':' and an empty part after the first.
C16_Witness ==
    /\ Applied("parseKey")
    /\ In.key = <<"1", ":", ":", "a">>
    /\ Out = [intent |-> <<"1">>, context |-> defaultContext, raw |-> In.key]

-----------------------------------------------------------------------------
(* C17 *)

\* C17: generateKey(I, C) is "intent:" + I + "+context:" + C and parseKey of
\* it has intent I and context C; parseKey(generateKey(I)) has intent I and
\* context "default".
C17_GenerateParseRoundTrip ==
    Applied("generateKey") =>
        /\ In.context # Undefined =>
              /\ Out.key = Canonical(In.intent, In.context)
              /\ Out.parsed.context = In.context
        /\ In.context = Undefined => Out.parsed.context = defaultContext
        /\ Out.parsed.intent = In.intent

-----------------------------------------------------------------------------
(* C18 *)

\* The candidates' scores against the target, and the greatest of them (0 for
\* an empty list).
Scores ==
    [i \in 1..Len(In.availableKeys) |->
        calculateMatchScore(In.availableKeys[i].intent, In.availableKeys[i].context,
                            In.targetIntent, In.targetContext)]

MaxScore ==
    IF Scores = <<>> THEN 0
    ELSE CHOOSE m \in {Scores[i] : i \in DOMAIN Scores} :
            \A i \in DOMAIN Scores : Scores[i] <= m

\* C18: findBestMatch returns the first candidate in list order whose score is
\* the greatest of the list when that is above zero, and null when the list is
\* empty or every candidate scores zero.
C18_FirstOfTheBestWins ==
    Applied("findBestMatch") =>
        IF MaxScore = 0
        THEN Out.bestMatch = 0
        ELSE /\ Out.bestMatch \in DOMAIN Scores
             /\ Scores[Out.bestMatch] = MaxScore
             /\ \A j \in 1..(Out.bestMatch - 1) : Scores[j] < MaxScore

\* Two candidates tie with the greatest score behind a lesser one, and the
\* first of the two is returned.
C18_Witness ==
    /\ Applied("findBestMatch")
    /\ Len(In.availableKeys) = 3
    /\ 0 < Scores[1]
    /\ Scores[1] < Scores[2]
    /\ Scores[2] = Scores[3]
    /\ Out.bestMatch = 2

-----------------------------------------------------------------------------
(* C19 *)

\* C19: every candidate with the target intent scores strictly higher than
\* every candidate with another intent, whatever their contexts; so when some
\* candidate has the target intent, findBestMatch returns one that has it.
C19_IntentDominatesContext ==
    Applied("findBestMatch") =>
        LET ks == In.availableKeys
        IN  /\ \A i, j \in DOMAIN ks :
                  (ks[i].intent = In.targetIntent /\ ks[j].intent # In.targetIntent)
                      => Scores[i] > Scores[j]
            /\ (\E i \in DOMAIN ks : ks[i].intent = In.targetIntent) =>
                  /\ Out.bestMatch \in DOMAIN ks
                  /\ ks[Out.bestMatch].intent = In.targetIntent

\* A candidate of another intent with the exact context comes first, one with
\* the target intent and an unrelated context second, and the second wins.
C19_Witness ==
    /\ Applied("findBestMatch")
    /\ In.targetIntent = <<"a">>
    /\ In.targetContext = <<"x">>
    /\ In.availableKeys =
          <<[intent |-> <<"b">>, context |-> <<"x">>, raw |-> <<"k">>],
            [intent |-> <<"a">>, context |-> <<"z">>, raw |-> <<"k">>]>>
    /\ Out.bestMatch = 2

-----------------------------------------------------------------------------
(* C20 *)

\* The keys of the input that have the intent g, in the input's order.
KeysOfIntent(g) ==
    LET HasIntent(k) == k.intent = g
    IN  SelectSeq(In.keys, HasIntent)

\* C20: groupByIntent partitions its input: there is a group for exactly the
\* intents that occur, and the group of an intent holds the input's keys of that
\* intent, each as often as it occurs and in the input's order.
C20_GroupsPartitionInOrder ==
    Applied("groupByIntent") =>
        /\ DOMAIN Out.groups = {In.keys[i].intent : i \in DOMAIN In.keys}
        /\ \A g \in DOMAIN Out.groups : Out.groups[g] = KeysOfIntent(g)

\* Two different keys of one intent around a key of another intent.
C20_Witness ==
    /\ Applied("groupByIntent")
    /\ In.keys =
          <<[intent |-> <<"a">>, context |-> <<"x">>, raw |-> <<"k">>],
            [intent |-> <<"b">>, context |-> <<"x">>, raw |-> <<"k">>],
            [intent |-> <<"a">>, context |-> <<"x">>, raw |-> <<"m">>]>>
    /\ Out.groups[<<"a">>] = <<In.keys[1], In.keys[3]>>
    /\ Out.groups[<<"b">>] = <<In.keys[2]>>

-----------------------------------------------------------------------------
(* C21 *)

Range(s) == {s[i] : i \in DOMAIN s}

\* C21: extractIntents(raws) holds no duplicates and holds exactly the intents
\* parseKey gives for the members of raws; so every list with the same members,
\* in any order and with any repetition, gives the same set.
C21_ExtractIntentsIsTheSet ==
    Applied("extractIntents") =>
        /\ \A i, j \in DOMAIN Out.intents : Out.intents[i] = Out.intents[j] => i = j
        /\ Range(Out.intents) = {parseKey(r).intent : r \in Range(In.raws)}
        /\ \A other \in ExtractLists :
              Range(other) = Range(In.raws) =>
                  Range(extractIntents(other)) = Range(Out.intents)

\* Three raw keys, two of which differ only by letter case, give two intents.
C21_Witness ==
    /\ Applied("extractIntents")
    /\ In.raws = <<<<"B">>, <<"a">>, <<"b", ":", "a">>>>
    /\ Out.intents = <<<<"b">>, <<"a">>>>

-----------------------------------------------------------------------------
(* C22 *)

\* C22: whenever get(k, lang) returns a value, it is the value of the most
\* recent completed set(k, lang, .), and no delete(k, lang), clearLanguage(lang)
\* or clearAll has completed since that set.
C22_GetReturnsLatestSet ==
    [][\A p \in AllProcs :
        (Returns(p, "get") /\ pr'[p].res # NULL) =>
            /\ pr'[p].res = gone[CK(pr'[p])].val
            /\ gone[CK(pr'[p])].tiers = "no"
            /\ flushed.tiers = "no"]_vars

-----------------------------------------------------------------------------
(* C23 *)

\* The calls so far were one set for each pair, all completed, and then this
\* get, begun while no other call was in progress.
AfterOneSetPerPair(p) ==
    /\ nops' = Cardinality(CacheKeys) + 1
    /\ pr'[p].quiet
    /\ \A c \in CacheKeys : gone[c].val # NULL

\* C23: set calls on pairwise different (key, language) pairs, concurrent in
\* any interleaving of their awaits, do not interfere: once all have completed,
\* get of each pair returns the value passed to that pair's set.
C23_ConcurrentSetsKeepEveryPair ==
    [][\A p \in ConcProcs :
        (Returns(p, "get") /\ AfterOneSetPerPair(p)) =>
            pr'[p].res = gone[CK(pr'[p])].val]_vars

-----------------------------------------------------------------------------
(* C24 *)

\* The shared tier answered request p's read and holds a value for its key.
SharedYields(p) ==
    pr'[p].shared = "ok" /\ redisGet(CK(pr'[p])) # NULL

\* C24: get is read-only and shared-tier-first: when the shared tier is
\* connected and holds a value for the composite key, get returns that value
\* whatever the local tier holds; every step of get leaves both tiers
\* unchanged; get returns absent exactly when the shared tier yields no value
\* (or errors, or is not connected) and the local tier has no live entry.
C24_GetReadOnlySharedFirst ==
    [][\A p \in AllProcs :
        /\ (pr'[p].op = "get" /\ pr'[p] # pr[p]) =>
               UNCHANGED <<redisStore, memoryCache>>
        /\ Returns(p, "get") =>
               /\ SharedYields(p) => pr'[p].res = redisGet(CK(pr'[p]))
               /\ (pr'[p].res = NULL) <=>
                      (~SharedYields(p) /\ ~memoryLive(CK(pr'[p])))]_vars

-----------------------------------------------------------------------------
(* C25 *)

\* Map m with the entry of ck replaced by one of value v expiring 3600 s from
\* now, every other entry as in m0.
WrittenOnly(m, m0, ck, v) ==
    /\ DOMAIN m = DOMAIN m0 \cup {ck}
    /\ m[ck].value = v
    /\ m[ck].expiresAt = now + 3600 * 1000
    /\ \A c \in DOMAIN m0 \ {ck} : m[c] = m0[c]

\* C25: each set(k, lang, v) writes exactly one tier: only the shared tier
\* (TTL 3600 s), the local tier unchanged, when the shared tier is connected
\* and the write succeeds; only the local tier, with expiresAt = now + 3600 s,
\* when the shared tier is not connected or the write fails.
C25_SetWritesExactlyOneTier ==
    [][\A p \in AllProcs :
        /\ (pr'[p].op = "set" /\ pr'[p] # pr[p] /\ pr'[p].pc # "done") =>
               UNCHANGED <<redisStore, memoryCache>>
        /\ Returns(p, "set") =>
               IF pr'[p].shared = "ok"
               THEN /\ WrittenOnly(redisStore', redisStore, CK(pr'[p]), pr'[p].val)
                    /\ memoryCache' = memoryCache
               ELSE /\ WrittenOnly(memoryCache', memoryCache, CK(pr'[p]), pr'[p].val)
                    /\ redisStore' = redisStore]_vars

\* A set whose shared-tier write failed has completed: the local tier holds
\* its value while the shared tier still holds an older, different one.
C25_Witness ==
    \E p \in AllProcs :
        /\ pr[p].op = "set" /\ pr[p].pc = "done" /\ pr[p].shared = "err"
        /\ Holds(memoryCache, CK(pr[p]))
        /\ memoryCache[CK(pr[p])].value = pr[p].val
        /\ Holds(redisStore, CK(pr[p]))
        /\ redisStore[CK(pr[p])].value # pr[p].val

-----------------------------------------------------------------------------
(* C26 *)

\* The shared-tier part of request p's clearLanguage failed: the key scan or
\* the delete rejected, or the handle was gone when the delete was due.
SharedClearFailed(p) == pr'[p].shared \in {"err", "dropped"}

\* C26: in clearLanguage(lang) a failure of the shared-tier key scan or of the
\* shared-tier delete does not prevent the local clear: the call completes
\* without error and has removed from the local tier every entry whose
\* composite key ends with ":" + lang, and no other entry.
C26_ClearLanguageLocalDespiteSharedFailure ==
    [][\A p \in AllProcs :
        (Returns(p, "clearLanguage") /\ SharedClearFailed(p)) =>
            /\ pr'[p].st = "ok"
            /\ DOMAIN memoryCache' =
                   {c \in DOMAIN memoryCache :
                       ~endsWith(c, <<":">> \o pr'[p].lang)}
            /\ \A c \in DOMAIN memoryCache' : memoryCache'[c] = memoryCache[c]]_vars

\* A clearLanguage whose shared-tier part failed has completed, having removed
\* at least one entry from the local tier.
C26_Witness ==
    \E p \in AllProcs :
        /\ pr[p].op = "clearLanguage" /\ pr[p].pc = "done"
        /\ pr[p].shared = "err"
        /\ pr[p].st = "ok"
        /\ pr[p].cleared # {}

-----------------------------------------------------------------------------
(* C27 *)

\* s occurs in t as a run of consecutive characters (a prefix is one).
IsSubstring(s, t) ==
    \E a \in 0..Len(t) : \E b \in a..Len(t) : SubSeq(t, a + 1, b) = s

IntentTerm == IF In.keyIntent = In.targetIntent THEN 10 ELSE 0

ContextTerm ==
    IF In.keyContext = In.targetContext THEN 5
    ELSE IF In.keyContext = defaultContext THEN 1
    ELSE IF \/ IsPrefix(In.keyContext, In.targetContext)
            \/ IsPrefix(In.targetContext, In.keyContext)
            \/ IsSubstring(In.keyContext, In.targetContext)
            \/ IsSubstring(In.targetContext, In.keyContext) THEN 2
    ELSE 0

\* The score of candidate (ki, kc) is n when the target is
\* (greeting, app_entry).
ScoresAgainstExample(ki, kc, n) ==
    (/\ In.targetIntent = Greeting /\ In.targetContext = AppEntry
     /\ In.keyIntent = ki /\ In.keyContext = kc) => Out.score = n

\* C27: the match score is 10 for an equal intent (else 0) plus exactly one
\* context term, chosen in this order: 5 for an equal context, else 1 for the
\* candidate context "default", else 2 when one context is a prefix or
\* substring of the other, else 0; so every score is one of 0, 1, 2, 5, 10,
\* 11, 12, 15, and against the target (greeting, app_entry) the candidates
\* (greeting, default), (greeting, app_entry), (farewell, app_entry) score 11,
\* 15 and 5.
C27_MatchScoreTerms ==
    Applied("calculateMatchScore") =>
        /\ Out.score = IntentTerm + ContextTerm
        /\ Out.score \in {0, 1, 2, 5, 10, 11, 12, 15}
        /\ ScoresAgainstExample(Greeting, defaultContext, 11)
        /\ ScoresAgainstExample(Greeting, AppEntry, 15)
        /\ ScoresAgainstExample(Farewell, AppEntry, 5)

\* A candidate of the target intent whose context "entry" occurs inside the
\* target context "app_entry" without being a prefix of it scores 12.
C27_Witness ==
    /\ Applied("calculateMatchScore")
    /\ In.keyIntent = Greeting /\ In.targetIntent = Greeting
    /\ In.keyContext = <<"e", "n", "t", "r", "y">>
    /\ In.targetContext = AppEntry
    /\ Out.score = 12

-----------------------------------------------------------------------------
(* C28 *)

\* C28: every string of the shape T:V, optionally followed by +context:C,
\* with T, V and C non-empty tokens over [a-z_] in any letter case (T may
\* contain '_'), is parsed as a structural match: the context returned is C
\* in lower case when the suffix is present and "default" when it is absent.
C28_ShapeIsStructuralMatch ==
    Applied("parseKey") =>
        \A T \in ShapeTokens, V \in ShapeTokens :
            /\ In.key = Shape(T, V) => Out.context = defaultContext
            /\ \A C \in ShapeTokens :
                  In.key = ShapeWithContext(T, V, C) => Out.context = Lowered(C)

-----------------------------------------------------------------------------
(* C29 *)

\* This step belongs to a delete, clearLanguage or clearAll call.
RemovingStep ==
    \E p \in AllProcs :
        /\ pr'[p] # pr[p]
        /\ pr'[p].op \in {"delete", "clearLanguage", "clearAll"}

\* C29: a local-tier entry is removed only by delete, clearLanguage or
\* clearAll: no other step (a set, a get, the passage of time) removes one,
\* and getStats reports as memorySize the number of local entries, expired
\* ones included; so memorySize never decreases except through those three
\* operations.
C29_LocalEntriesRemovedOnlyExplicitly ==
    [][/\ ~RemovingStep => DOMAIN memoryCache \subseteq DOMAIN memoryCache'
       /\ \A p \in AllProcs :
              Returns(p, "getStats") =>
                  pr'[p].stats.memorySize = Cardinality(DOMAIN memoryCache)]_vars

\* getStats has counted an entry that has expired and that get reports as
\* absent.
C29_Witness ==
    \E p \in AllProcs :
        /\ pr[p].op = "getStats" /\ pr[p].pc = "done"
        /\ pr[p].stats.memorySize = Cardinality(DOMAIN memoryCache)
        /\ pr[p].stats.memorySize >= 1
        /\ \A c \in DOMAIN memoryCache :
              memoryCache[c].expiresAt <= now /\ memoryGet(c) = NULL

-----------------------------------------------------------------------------
(* C30 *)

RequestedKeys == {sdk.keys[i] : i \in DOMAIN sdk.keys}

\* The value the server's reply holds for key k, null when the request failed
\* or was not made.
FetchedValue(k) ==
    IF sdk.response.kind = "ok"
          /\ \E i \in DOMAIN sdk.response.translations :
                sdk.response.translations[i].key = k
    THEN LET i == CHOOSE j \in DOMAIN sdk.response.translations :
                      sdk.response.translations[j].key = k
         IN  sdk.response.translations[i].value
    ELSE JsonNull

\* The entry tBatch owes for key k, given the cache at the time of the call.
OwedEntry(k) ==
    LET ck == k \o <<":">> \o sdk.lang
    IN  IF ck \in DOMAIN sdk.cache0 THEN sdk.cache0[ck]
        ELSE IF FetchedValue(k) # JsonNull THEN FetchedValue(k)
        ELSE k

====
